---- MODULE Spec2Model ----
(***************************************************************************)
(* ChatLofi notification server (src/server.js): the notification          *)
(* handlers as a state machine.  One request is served at a time; every    *)
(* `await` of a handler is a step boundary, and the sub-operations a       *)
(* handler launches together (record writes, directory lookups, FCM sends) *)
(* settle one by one in any order.  Firestore and FCM are external: what   *)
(* a read returns and whether a call succeeds is chosen nondeterministically*)
(* when the call settles.                                                  *)
(***************************************************************************)
EXTENDS Integers, FiniteSets, Sequences, Bags, TLC

\* ------------------------------------------------------------------ values

Users == {"A", "B", "C"}

\* how many times a client submits the same message event
MaxRequests == 2

\* undefined / null: a request field or document field that is not there
NULL == "null"
\* the empty string, and a whitespace-only string
EMPTY == ""
BLANK == " "

\* String.prototype.trim
Trim(s) == IF s = BLANK THEN EMPTY ELSE s

\* JavaScript's !x for the strings and nulls of the model
Falsy(x) == x \in {NULL, EMPTY}

\* the FCM registration token a user's device registered (one per user)
TokenOf(u) == CASE u = "A" -> "tokA" [] u = "B" -> "tokB" [] OTHER -> "tokC"

Tokens == {TokenOf(u) : u \in Users}

\* what users/{uid} can hold when it is read
UserDocs(u) ==
    { [exists |-> FALSE, fcmToken |-> NULL] } \cup
    { [exists |-> TRUE, fcmToken |-> t] : t \in {NULL, EMPTY, BLANK, TokenOf(u)} }

\* what Chats/{chatId} can hold when it is read (UID and mutedUsers arrays of
\* distinct ids; a field that is no array reads as the empty list)
ChatDocs ==
    { [read |-> TRUE, exists |-> FALSE, UID |-> {}, mutedUsers |-> {}] } \cup
    { [read |-> TRUE, exists |-> TRUE, UID |-> m, mutedUsers |-> mu] :
        m \in SUBSET Users, mu \in SUBSET Users }

\* the followerId values of the documents a followers query can return
FollowerSnapshots == SUBSET (Users \cup {BLANK})

SingleEndpoints ==
    { "send-notification", "friend-request", "friend-request-accepted",
      "post-comment", "post-reaction", "post-share", "comment-reply",
      "comment-like", "group-invite", "mention" }

\* ------------------------------------------------------------------ state

VARIABLES
    pc,               \* where the handler of the current request stands
    req,              \* the request body
    reqNo,            \* requests received so far
    chatData,         \* message: the conversation document read
    allRecipientIds,  \* message: members other than the sender
    pushRecipientIds, \* message: allRecipientIds minus mutedUsers; new-post: followerIds
    saves,            \* per recipient: the record write of this request
    tokenResults,     \* per recipient: the directory lookup of this request
    sends,            \* per token: the FCM send of this request
    res,              \* the response sent (status 0: none yet)
    notifications,    \* the notifications collection
    fcm,              \* every message handed to admin.messaging().send (a bag)
    otpStore,         \* the in-memory OTP store, per address
    now,              \* Date.now(), in milliseconds
    otpPending,       \* send / resend requests awaiting sendOTPEmail (a bag)
    otpMail,          \* the mail being handed to the transporter (op null: none)
    otpRes,           \* the OTP response being sent (status 0: none)
    consumed,         \* history: the code of the entry a verify succeeded on
    replaced          \* history: the code of the entry the latest resend deleted

notifyVars == << pc, req, reqNo, chatData, allRecipientIds, pushRecipientIds,
                 saves, tokenResults, sends, res, notifications, fcm >>

otpVars == << otpStore, now, otpPending, otpMail, otpRes, consumed, replaced >>

vars == << notifyVars, otpVars >>

NoReq == [endpoint |-> NULL, chatId |-> NULL, actorId |-> NULL,
          recipientId |-> NULL, refId |-> NULL, messageId |-> NULL,
          reactionType |-> NULL]

NoChat == [read |-> FALSE, exists |-> FALSE, UID |-> {}, mutedUsers |-> {}]

NoLookup == [st |-> "none", exists |-> FALSE, fcmToken |-> NULL]

NoRes == [status |-> 0, success |-> FALSE, sent |-> -1, total |-> -1,
          saved |-> -1, muted |-> -1, mutedCount |-> -1, messageId |-> FALSE]

SendKeys == Tokens \cup {BLANK}

\* the address the OTP requests are about
Email == "u@x.io"

\* an address without an entry, and the code of no entry
NoEntry == [present |-> FALSE, otp |-> << >>, expiresAt |-> 0, attempts |-> 0,
            createdAt |-> 0]

NoOtpRes == [op |-> NULL, email |-> NULL, status |-> 0, success |-> FALSE, code |-> NULL,
             remainingAttempts |-> -1, retryAfter |-> -1, expiresIn |-> -1,
             otp |-> << >>, pre |-> NoEntry, current |-> FALSE, inFlight |-> -1]

NoMail == [op |-> NULL, otp |-> << >>, pre |-> NoEntry, preOwner |-> NULL]

Init ==
    /\ pc = "idle"
    /\ req = NoReq
    /\ reqNo = 0
    /\ chatData = NoChat
    /\ allRecipientIds = {}
    /\ pushRecipientIds = {}
    /\ saves = [u \in Users |-> "none"]
    /\ tokenResults = [u \in Users |-> NoLookup]
    /\ sends = [t \in SendKeys |-> "none"]
    /\ res = NoRes
    /\ notifications = {}
    /\ fcm = EmptyBag
    /\ otpStore = [e \in {Email} |-> NoEntry]
    /\ now = 0
    /\ otpPending = EmptyBag
    /\ otpMail = NoMail
    /\ otpRes = NoOtpRes
    /\ consumed = << >>
    /\ replaced = << >>

\* ------------------------------------------------------------------ helpers

\* getUserFcmToken applied to the document read
getUserFcmToken(doc) ==
    IF ~doc.exists
    THEN [st |-> "done", exists |-> FALSE, fcmToken |-> NULL]
    ELSE [st |-> "done", exists |-> TRUE,
          fcmToken |-> IF Falsy(doc.fcmToken) THEN NULL ELSE doc.fcmToken]

\* mutant: the filter without the trim
IsSendable_NoTrim(t) == t # NULL

\* tokens.filter: typeof t === 'string' && t.trim().length > 0
IsSendable(t) == t # NULL /\ Trim(t) # EMPTY

\* mutant: the error paths return without a response
ErrorRes_None(s) == NoRes

\* res.status(s).json({error}) and the early-return success bodies
ErrorRes(s) == [NoRes EXCEPT !.status = s]

\* the type discriminator of the push payload, per endpoint
PushType(e) ==
    CASE e = "message" -> "new_message"
      [] e = "new-post" -> "new_post"
      [] e = "send-notification" -> NULL
      [] e = "friend-request" -> "friend_request"
      [] e = "friend-request-accepted" -> "friend_request_accepted"
      [] e = "post-comment" -> "post_comment"
      [] e = "post-reaction" -> "post_reaction"
      [] e = "post-share" -> "post_share"
      [] e = "comment-reply" -> "comment_reply"
      [] e = "comment-like" -> "comment_like"
      [] e = "group-invite" -> "group_invite"
      [] OTHER -> "mention"

\* the type of the record saveNotificationToFirestore is called with
RecordType(e) ==
    CASE e = "message" -> "new_message"
      [] e = "friend-request" -> "friend_request"
      [] e = "friend-request-accepted" -> "friend_accept"
      [] e = "post-comment" -> "post_comment"
      [] e = "post-reaction" -> "post_reaction"
      [] e = "post-share" -> "post_share"
      [] e = "comment-reply" -> "comment_reply"
      [] e = "comment-like" -> "comment_like"
      [] e = "group-invite" -> "group_invite"
      [] OTHER -> "mention"

\* single-recipient handlers that call saveNotificationToFirestore
Persists(e) == e # "send-notification"

\* mutant: the self-action return is missing from the mention handler
SelfCheck_NotMention(e) ==
    e \in { "post-comment", "post-reaction", "post-share", "comment-reply",
            "comment-like" }

\* single-recipient handlers that return early when owner === actor
SelfCheck(e) ==
    e \in { "post-comment", "post-reaction", "post-share", "comment-reply",
            "comment-like", "mention" }

\* single-recipient handlers whose body names an acting user
HasActor(e) == e # "send-notification"

\* mutant: only recipient and actor are validated
HasRef_None(e) == FALSE

\* single-recipient handlers with required fields besides recipient and actor
\* (title and body; postId; postId and commentId; groupId)
HasRef(e) ==
    e \in { "send-notification", "post-comment", "post-reaction", "post-share",
            "comment-reply", "comment-like", "group-invite" }

\* the own properties of the reactionEmojis object literal
ReactionGlyphs ==
    [ like |-> "thumbs-up", love |-> "heart", haha |-> "laughing",
      wow |-> "open-mouth", sad |-> "crying", angry |-> "angry-face" ]

\* property names every object literal inherits from Object.prototype
ObjectPrototypeKeys ==
    { "constructor", "toString", "valueOf", "hasOwnProperty", "__proto__" }

\* what the body template renders for an inherited property (a function or
\* Object.prototype itself, both truthy)
InheritedValue == "function"

\* the reactionType field of a post-reaction body: absent, the six known
\* names, an unknown name, the name of an inherited property
ReactionInputs ==
    { NULL, "like", "love", "haha", "wow", "sad", "angry", "dislike",
      "constructor" }

\* reactionEmojis[reactionType]: own property, inherited property, undefined
ReactionLookup(reactionType) ==
    IF reactionType \in DOMAIN ReactionGlyphs THEN ReactionGlyphs[reactionType]
    ELSE IF reactionType \in ObjectPrototypeKeys THEN InheritedValue
    ELSE NULL

\* reactionEmojis[reactionType] || like glyph
ReactionEmoji(reactionType) ==
    IF Falsy(ReactionLookup(reactionType)) THEN ReactionGlyphs["like"]
    ELSE ReactionLookup(reactionType)

\* const emoji of the post-reaction handler; the other handlers have none
Emoji ==
    IF req.endpoint = "post-reaction" THEN ReactionEmoji(req.reactionType) ELSE NULL

\* the title a handler renders for a request that names nobody (the model's
\* requests carry no display names); send-notification passes the request's own
Title(e) ==
    CASE e = "message" -> "Tin nhan moi"
      [] e = "new-post" -> "Bai viet moi"
      [] e = "send-notification" -> req.refId
      [] e = "friend-request" -> "Loi moi ket ban moi"
      [] e = "friend-request-accepted" -> "Loi moi ket ban duoc chap nhan"
      [] e = "post-comment" -> "Binh luan moi"
      [] e = "post-reaction" -> "Bieu cam moi"
      [] e = "post-share" -> "Bai viet duoc chia se"
      [] e = "comment-reply" -> "Tra loi binh luan"
      [] e = "comment-like" -> "Binh luan duoc thich"
      [] e = "group-invite" -> "Loi moi vao nhom"
      [] OTHER -> "Ban duoc nhac den"

\* the body a handler renders for such a request: its nameless template, with
\* the glyph the post-reaction template interpolates
Body(e, emoji) ==
    CASE e = "message" -> << "Hinh anh" >>
      [] e = "new-post" -> << "Co bai viet moi tu nguoi ban theo doi" >>
      [] e = "send-notification" -> << req.refId >>
      [] e = "friend-request" -> << "Ban co loi moi ket ban moi" >>
      [] e = "friend-request-accepted" ->
            << "Loi moi ket ban cua ban da duoc chap nhan" >>
      [] e = "post-comment" -> << "Co nguoi binh luan bai viet cua ban" >>
      [] e = "post-reaction" -> << "Co nguoi", emoji, "bai viet cua ban" >>
      [] e = "post-share" -> << "Co nguoi da chia se bai viet cua ban" >>
      [] e = "comment-reply" -> << "Co nguoi tra loi binh luan cua ban" >>
      [] e = "comment-like" -> << "Co nguoi thich binh luan cua ban" >>
      [] e = "group-invite" -> << "Ban duoc moi vao mot nhom chat moi" >>
      [] OTHER -> << "Ban duoc nhac den trong mot bai viet" >>

\* the document notificationRef.set writes; doc() gives every write a fresh id
NotificationRecord(recipientId) ==
    [ id |-> << reqNo, recipientId >>,
      recipientId |-> recipientId,
      type |-> RecordType(req.endpoint),
      title |-> Title(req.endpoint),
      body |-> Body(req.endpoint, Emoji),
      roomId |-> req.chatId,
      senderId |-> req.actorId,
      refId |-> req.refId,
      messageId |-> req.messageId,
      read |-> FALSE ]

\* the message admin.messaging().send is called with
FcmMessage(token) ==
    [ token |-> token, type |-> PushType(req.endpoint), reqNo |-> reqNo,
      title |-> Title(req.endpoint),
      body |-> Body(req.endpoint, Emoji),
      emoji |-> Emoji ]

Settled(f, S) == \A x \in S : f[x] # "pending"

\* mutant: the existence check is missing
ChatFound_Unchecked(doc) == TRUE

\* chatDoc.exists
ChatFound(doc) == doc.exists

\* mutant: unknown recipient and missing token are not told apart
LookupStatus_Merged(r) == IF ~r.exists \/ Falsy(r.fcmToken) THEN 400 ELSE 0

\* the single-recipient handlers' checks on a lookup result: the status of the
\* early return, 0 when the handler goes on to send
LookupStatus(r) == IF ~r.exists THEN 404 ELSE IF Falsy(r.fcmToken) THEN 400 ELSE 0

\* mutant: one recipient without an address empties the batch
ResolvedTokens_AllOrNothing(results, ids) ==
    IF \A v \in ids : results[v].fcmToken \notin {NULL, EMPTY, BLANK}
    THEN { results[u].fcmToken : u \in ids }
    ELSE {}

\* mutant: the sender is not filtered out
AllRecipients_KeepSender(memberIds, senderId) == memberIds

\* memberIds.filter(uid => uid !== senderId)
AllRecipients(memberIds, senderId) == { uid \in memberIds : uid # senderId }

\* mutant: the mute filter is dropped
PushRecipients_NoMute(all, mutedUsers) == all

\* allRecipientIds.filter(uid => !mutedUsers.includes(uid))
PushRecipients(all, mutedUsers) == { uid \in all : uid \notin mutedUsers }

\* mutant: the catch block rethrows
saveNotificationToFirestore_Rethrow(ok) == IF ok THEN "ok" ELSE "threw"

\* how one saveNotificationToFirestore call settles: the id when the set
\* resolved, and when it rejected the catch block returns null; never a throw
saveNotificationToFirestore(ok) == IF ok THEN "ok" ELSE "fail"


\* Promise.all over getUserFcmToken: the tokens of the results, filtered
ResolvedTokens(results, ids) ==
    { results[u].fcmToken : u \in { v \in ids : IsSendable(results[v].fcmToken) } }

\* mutant: every settled send is counted as sent
Successful_AllSettled(s) ==
    Cardinality({ t \in SendKeys : s[t] \in {"fulfilled", "rejected"} })

\* sendResults.filter(r => r.status === 'fulfilled').length
Successful(s) == Cardinality({ t \in SendKeys : s[t] = "fulfilled" })

\* tokens.length
Total(s) == Cardinality({ t \in SendKeys : s[t] # "none" })

\* tokens.map(token => sendFcmToToken(token, payload)): every send is started
LaunchSends(tokens) ==
    /\ sends' = [t \in SendKeys |-> IF t \in tokens THEN "pending" ELSE sends[t]]
    /\ fcm' = fcm (+) SetToBag({ FcmMessage(t) : t \in tokens })

\* ids.map(uid => getUserFcmToken(uid)): every lookup is started
LaunchLookups(ids) ==
    tokenResults' = [u \in Users |->
        IF u \in ids THEN [NoLookup EXCEPT !.st = "pending"] ELSE tokenResults[u]]

\* ------------------------------------------------------------------ POST /api/notify/message

\* the handler up to its first await (validation, then the chat read is issued)
StartMessage(chatId, senderId, messageId) ==
    /\ reqNo' = reqNo + 1
    /\ req' = [NoReq EXCEPT !.endpoint = "message", !.chatId = chatId,
                            !.actorId = senderId, !.messageId = messageId]
    /\ IF Falsy(chatId) \/ Falsy(senderId)
       THEN /\ res' = ErrorRes(400)
            /\ pc' = "responded"
       ELSE /\ res' = NoRes
            /\ pc' = "chatGet"
    /\ chatData' = NoChat
    /\ allRecipientIds' = {}
    /\ pushRecipientIds' = {}
    /\ saves' = [u \in Users |-> "none"]
    /\ tokenResults' = [u \in Users |-> NoLookup]
    /\ sends' = [t \in SendKeys |-> "none"]
    /\ UNCHANGED << notifications, fcm >>
    /\ UNCHANGED otpVars

\* a client posts to /api/notify/message
ReceiveMessage(chatId, senderId, messageId) ==
    /\ pc = "idle"
    /\ StartMessage(chatId, senderId, messageId)

\* the client posts the same message event again once it has its response
RetryMessage ==
    /\ pc = "responded"
    /\ req.endpoint = "message"
    /\ reqNo < MaxRequests
    /\ \A u \in Users : tokenResults[u].st # "pending"
    /\ StartMessage(req.chatId, req.actorId, req.messageId)

\* mutant: only the muted users among the recipients are counted
MutedCount_Suppressed(mutedUsers, all) == Cardinality(mutedUsers \cap all)

\* mutedCount: mutedUsers.length, the length of the chat's whole muted list
MutedCount(mutedUsers, all) == Cardinality(mutedUsers)

\* the response when pushRecipientIds is empty
AllMutedRes(all, muted) ==
    [NoRes EXCEPT !.status = 200, !.success = TRUE, !.sent = 0,
                  !.saved = Cardinality(all), !.muted = Cardinality(muted)]

\* the chat read settles: 404, or recipients are resolved and the writes launched
MessageChatGet(doc) ==
    /\ pc = "chatGet"
    /\ req.endpoint = "message"
    /\ IF ~ChatFound(doc)
       THEN /\ res' = ErrorRes(404)
            /\ pc' = "responded"
            /\ chatData' = doc
            /\ UNCHANGED << allRecipientIds, pushRecipientIds, saves >>
       ELSE LET memberIds == doc.UID
                mutedUsers == doc.mutedUsers
                all == AllRecipients(memberIds, req.actorId)
                push == PushRecipients(all, mutedUsers)
            IN  /\ chatData' = doc
                /\ allRecipientIds' = all
                /\ pushRecipientIds' = push
                /\ IF all # {}
                   THEN /\ saves' = [u \in Users |->
                                        IF u \in all THEN "pending" ELSE saves[u]]
                        /\ pc' = "saving"
                        /\ res' = res
                   ELSE /\ saves' = saves
                        /\ res' = AllMutedRes(all, mutedUsers)
                        /\ pc' = "responded"
    /\ UNCHANGED << req, reqNo, tokenResults, sends, notifications, fcm >>
    /\ UNCHANGED otpVars

\* the chat read rejects: the catch block answers 500
MessageChatGetFail ==
    /\ pc = "chatGet"
    /\ req.endpoint = "message"
    /\ res' = ErrorRes(500)
    /\ pc' = "responded"
    /\ UNCHANGED << req, reqNo, chatData, allRecipientIds, pushRecipientIds,
                    saves, tokenResults, sends, notifications, fcm >>
    /\ UNCHANGED otpVars

\* one saveNotificationToFirestore of the Promise.all settles; the last one
\* resumes the handler (a call that threw would reject the Promise.all: 500)
MessageSaveSettle(recipientId, ok) ==
    /\ pc = "saving"
    /\ req.endpoint = "message"
    /\ saves[recipientId] = "pending"
    /\ saves' = [saves EXCEPT ![recipientId] = saveNotificationToFirestore(ok)]
    /\ notifications' = IF ok THEN notifications \cup {NotificationRecord(recipientId)}
                        ELSE notifications
    /\ IF saves'[recipientId] = "threw"
       THEN /\ res' = ErrorRes(500)
            /\ pc' = "responded"
            /\ tokenResults' = tokenResults
       ELSE IF Settled(saves', Users)
            THEN IF pushRecipientIds = {}
                 THEN /\ res' = AllMutedRes(allRecipientIds, chatData.mutedUsers)
                      /\ pc' = "responded"
                      /\ tokenResults' = tokenResults
                 ELSE /\ LaunchLookups(pushRecipientIds)
                      /\ pc' = "lookup"
                      /\ res' = res
            ELSE UNCHANGED << pc, res, tokenResults >>
    /\ UNCHANGED << req, reqNo, chatData, allRecipientIds, pushRecipientIds,
                    sends, fcm >>
    /\ UNCHANGED otpVars

\* one getUserFcmToken of the batch resolves; the last one resumes the handler
MessageLookupSettle(uid, doc) ==
    /\ pc = "lookup"
    /\ req.endpoint = "message"
    /\ tokenResults[uid].st = "pending"
    /\ tokenResults' = [tokenResults EXCEPT ![uid] = getUserFcmToken(doc)]
    /\ IF \A u \in Users : tokenResults'[u].st # "pending"
       THEN LET tokens == ResolvedTokens(tokenResults', pushRecipientIds)
            IN  IF tokens = {}
                THEN /\ res' = [NoRes EXCEPT !.status = 200, !.success = TRUE,
                                    !.sent = 0,
                                    !.saved = Cardinality(allRecipientIds)]
                     /\ pc' = "responded"
                     /\ UNCHANGED << sends, fcm >>
                ELSE /\ LaunchSends(tokens)
                     /\ pc' = "sending"
                     /\ res' = res
       ELSE UNCHANGED << pc, res, sends, fcm >>
    /\ UNCHANGED << req, reqNo, chatData, allRecipientIds, pushRecipientIds,
                    saves, notifications >>
    /\ UNCHANGED otpVars

\* one getUserFcmToken of the batch rejects: Promise.all rejects at once and
\* the catch block answers 500 while the other lookups are still in flight
MessageLookupFail(uid) ==
    /\ pc = "lookup"
    /\ req.endpoint = "message"
    /\ tokenResults[uid].st = "pending"
    /\ tokenResults' = [tokenResults EXCEPT ![uid].st = "error"]
    /\ res' = ErrorRes(500)
    /\ pc' = "responded"
    /\ UNCHANGED << req, reqNo, chatData, allRecipientIds, pushRecipientIds,
                    saves, sends, notifications, fcm >>
    /\ UNCHANGED otpVars

\* one send of Promise.allSettled settles; the last one resumes the handler
MessageSendSettle(token, ok) ==
    /\ pc = "sending"
    /\ req.endpoint = "message"
    /\ sends[token] = "pending"
    /\ sends' = [sends EXCEPT ![token] = IF ok THEN "fulfilled" ELSE "rejected"]
    /\ IF Settled(sends', SendKeys)
       THEN /\ res' = [NoRes EXCEPT !.status = 200, !.success = TRUE,
                           !.sent = Successful(sends'),
                           !.total = Total(sends'),
                           !.saved = Cardinality(allRecipientIds),
                           !.mutedCount = MutedCount(chatData.mutedUsers,
                                                     allRecipientIds)]
            /\ pc' = "responded"
       ELSE UNCHANGED << pc, res >>
    /\ UNCHANGED << req, reqNo, chatData, allRecipientIds, pushRecipientIds,
                    saves, tokenResults, notifications, fcm >>
    /\ UNCHANGED otpVars

\* a lookup left in flight by a rejected Promise.all settles after the response
OrphanLookupSettle(uid, doc, ok) ==
    /\ pc = "responded"
    /\ tokenResults[uid].st = "pending"
    /\ tokenResults' = [tokenResults EXCEPT ![uid] =
            IF ok THEN getUserFcmToken(doc) ELSE [NoLookup EXCEPT !.st = "error"]]
    /\ UNCHANGED << pc, req, reqNo, chatData, allRecipientIds, pushRecipientIds,
                    saves, sends, res, notifications, fcm >>
    /\ UNCHANGED otpVars

\* ------------------------------------------------------------------ POST /api/notify/new-post

\* the handler up to its first await (validation, then the followers query)
ReceiveNewPost(postId, userId) ==
    /\ pc = "idle"
    /\ reqNo' = reqNo + 1
    /\ req' = [NoReq EXCEPT !.endpoint = "new-post", !.refId = postId,
                            !.actorId = userId]
    /\ IF Falsy(postId) \/ Falsy(userId)
       THEN /\ res' = ErrorRes(400)
            /\ pc' = "responded"
       ELSE /\ res' = res
            /\ pc' = "followersGet"
    /\ UNCHANGED << chatData, allRecipientIds, pushRecipientIds, saves,
                    tokenResults, sends, notifications, fcm >>
    /\ UNCHANGED otpVars

\* the early-return bodies {success: true, sent: 0}
SentZeroRes == [NoRes EXCEPT !.status = 200, !.success = TRUE, !.sent = 0]

\* the followers query settles with the followerId values of its documents
NewPostFollowersGet(snapshot) ==
    /\ pc = "followersGet"
    /\ LET followerIds == { id \in snapshot : id # NULL /\ Trim(id) # EMPTY }
       IN  IF snapshot = {} \/ followerIds = {}
           THEN /\ res' = SentZeroRes
                /\ pc' = "responded"
                /\ UNCHANGED << pushRecipientIds, tokenResults >>
           ELSE /\ pushRecipientIds' = followerIds
                /\ LaunchLookups(followerIds)
                /\ pc' = "lookup"
                /\ res' = res
    /\ UNCHANGED << req, reqNo, chatData, allRecipientIds, saves, sends,
                    notifications, fcm >>
    /\ UNCHANGED otpVars

\* the followers query rejects: the catch block answers 500
NewPostFollowersGetFail ==
    /\ pc = "followersGet"
    /\ res' = ErrorRes(500)
    /\ pc' = "responded"
    /\ UNCHANGED << req, reqNo, chatData, allRecipientIds, pushRecipientIds,
                    saves, tokenResults, sends, notifications, fcm >>
    /\ UNCHANGED otpVars

\* one getUserFcmToken of the batch resolves; the last one resumes the handler
NewPostLookupSettle(uid, doc) ==
    /\ pc = "lookup"
    /\ req.endpoint = "new-post"
    /\ tokenResults[uid].st = "pending"
    /\ tokenResults' = [tokenResults EXCEPT ![uid] = getUserFcmToken(doc)]
    /\ IF \A u \in Users : tokenResults'[u].st # "pending"
       THEN LET tokens == ResolvedTokens(tokenResults', pushRecipientIds)
            IN  IF tokens = {}
                THEN /\ res' = SentZeroRes
                     /\ pc' = "responded"
                     /\ UNCHANGED << sends, fcm >>
                ELSE /\ LaunchSends(tokens)
                     /\ pc' = "sending"
                     /\ res' = res
       ELSE UNCHANGED << pc, res, sends, fcm >>
    /\ UNCHANGED << req, reqNo, chatData, allRecipientIds, pushRecipientIds,
                    saves, notifications >>
    /\ UNCHANGED otpVars

\* one getUserFcmToken of the batch rejects: Promise.all rejects at once
NewPostLookupFail(uid) ==
    /\ pc = "lookup"
    /\ req.endpoint = "new-post"
    /\ tokenResults[uid].st = "pending"
    /\ tokenResults' = [tokenResults EXCEPT ![uid].st = "error"]
    /\ res' = ErrorRes(500)
    /\ pc' = "responded"
    /\ UNCHANGED << req, reqNo, chatData, allRecipientIds, pushRecipientIds,
                    saves, sends, notifications, fcm >>
    /\ UNCHANGED otpVars

\* one send of Promise.allSettled settles; the last one resumes the handler
NewPostSendSettle(token, ok) ==
    /\ pc = "sending"
    /\ req.endpoint = "new-post"
    /\ sends[token] = "pending"
    /\ sends' = [sends EXCEPT ![token] = IF ok THEN "fulfilled" ELSE "rejected"]
    /\ IF Settled(sends', SendKeys)
       THEN /\ res' = [NoRes EXCEPT !.status = 200, !.success = TRUE,
                           !.sent = Successful(sends'),
                           !.total = Total(sends')]
            /\ pc' = "responded"
       ELSE UNCHANGED << pc, res >>
    /\ UNCHANGED << req, reqNo, chatData, allRecipientIds, pushRecipientIds,
                    saves, tokenResults, notifications, fcm >>
    /\ UNCHANGED otpVars

\* ------------------------------------------------------------------ single-recipient handlers
\* /api/send-notification and /api/notify/{friend-request, friend-request-accepted,
\* post-comment, post-reaction, post-share, comment-reply, comment-like,
\* group-invite, mention}: one shape, told apart by the tables above

\* the handler up to its first await: validation, the self-action return, then
\* the directory lookup is issued
ReceiveSingle(e, recipientId, actorId, refId, reactionType) ==
    /\ pc = "idle"
    /\ reqNo' = reqNo + 1
    /\ req' = [NoReq EXCEPT !.endpoint = e, !.recipientId = recipientId,
                            !.actorId = actorId, !.refId = refId,
                            !.reactionType = reactionType]
    /\ IF \/ Falsy(recipientId)
          \/ HasActor(e) /\ Falsy(actorId)
          \/ HasRef(e) /\ Falsy(refId)
       THEN /\ res' = ErrorRes(400)
            /\ pc' = "responded"
            /\ tokenResults' = tokenResults
       ELSE IF SelfCheck(e) /\ recipientId = actorId
            THEN /\ res' = SentZeroRes
                 /\ pc' = "responded"
                 /\ tokenResults' = tokenResults
            ELSE /\ LaunchLookups({recipientId})
                 /\ pc' = "userGet"
                 /\ res' = res
    /\ UNCHANGED << chatData, allRecipientIds, pushRecipientIds, saves, sends,
                    notifications, fcm >>
    /\ UNCHANGED otpVars

\* getUserFcmToken resolves: 404, 400, or the send is issued
SingleUserGet(doc) ==
    /\ pc = "userGet"
    /\ LET r == getUserFcmToken(doc)
       IN  /\ tokenResults' = [tokenResults EXCEPT ![req.recipientId] = r]
           /\ IF LookupStatus(r) # 0
              THEN /\ res' = ErrorRes(LookupStatus(r))
                   /\ pc' = "responded"
                   /\ UNCHANGED << sends, fcm >>
              ELSE /\ LaunchSends({r.fcmToken})
                   /\ pc' = "pushing"
                   /\ res' = res
    /\ UNCHANGED << req, reqNo, chatData, allRecipientIds, pushRecipientIds,
                    saves, notifications >>
    /\ UNCHANGED otpVars

\* getUserFcmToken rejects: the catch block answers 500
SingleUserGetFail ==
    /\ pc = "userGet"
    /\ tokenResults' = [tokenResults EXCEPT ![req.recipientId].st = "error"]
    /\ res' = ErrorRes(500)
    /\ pc' = "responded"
    /\ UNCHANGED << req, reqNo, chatData, allRecipientIds, pushRecipientIds,
                    saves, sends, notifications, fcm >>
    /\ UNCHANGED otpVars

\* the response {success: true, messageId}
MessageIdRes == [NoRes EXCEPT !.status = 200, !.success = TRUE, !.messageId = TRUE]

\* mutant: the send is wrapped in its own try/catch and the handler goes on
AwaitThrows_Swallowed(ok) == FALSE

\* await on a rejected sendFcmToToken promise throws into the catch block
AwaitThrows(ok) == ~ok

\* await sendFcmToToken settles: a rejection is thrown into the catch block
\* (500); otherwise the record write is issued (send-notification: the response)
SinglePushSettle(ok) ==
    /\ pc = "pushing"
    /\ LET token == tokenResults[req.recipientId].fcmToken
       IN  sends' = [sends EXCEPT ![token] = IF ok THEN "fulfilled" ELSE "rejected"]
    /\ IF AwaitThrows(ok)
       THEN /\ res' = ErrorRes(500)
            /\ pc' = "responded"
            /\ saves' = saves
       ELSE IF Persists(req.endpoint)
            THEN /\ saves' = [saves EXCEPT ![req.recipientId] = "pending"]
                 /\ pc' = "recording"
                 /\ res' = res
            ELSE /\ res' = MessageIdRes
                 /\ pc' = "responded"
                 /\ saves' = saves
    /\ UNCHANGED << req, reqNo, chatData, allRecipientIds, pushRecipientIds,
                    tokenResults, notifications, fcm >>
    /\ UNCHANGED otpVars

\* await saveNotificationToFirestore settles, then the response (a call that
\* threw would land in the catch block: 500)
SingleSaveSettle(ok) ==
    /\ pc = "recording"
    /\ saves' = [saves EXCEPT ![req.recipientId] = saveNotificationToFirestore(ok)]
    /\ notifications' = IF ok
                        THEN notifications \cup {NotificationRecord(req.recipientId)}
                        ELSE notifications
    /\ res' = IF saves'[req.recipientId] = "threw" THEN ErrorRes(500) ELSE MessageIdRes
    /\ pc' = "responded"
    /\ UNCHANGED << req, reqNo, chatData, allRecipientIds, pushRecipientIds,
                    tokenResults, sends, fcm >>
    /\ UNCHANGED otpVars

\* ------------------------------------------------------------------ specifications

MessagePath ==
    \/ \E doc \in ChatDocs : MessageChatGet(doc)
    \/ MessageChatGetFail
    \/ \E u \in Users, ok \in BOOLEAN : MessageSaveSettle(u, ok)
    \/ \E u \in Users : \E doc \in UserDocs(u) : MessageLookupSettle(u, doc)
    \/ \E u \in Users : MessageLookupFail(u)
    \/ \E t \in SendKeys, ok \in BOOLEAN : MessageSendSettle(t, ok)
    \/ \E u \in Users, ok \in BOOLEAN : \E doc \in UserDocs(u) :
            OrphanLookupSettle(u, doc, ok)

NewPostPath ==
    \/ \E snapshot \in FollowerSnapshots : NewPostFollowersGet(snapshot)
    \/ NewPostFollowersGetFail
    \/ \E u \in Users : \E doc \in UserDocs(u) : NewPostLookupSettle(u, doc)
    \/ \E u \in Users : NewPostLookupFail(u)
    \/ \E t \in SendKeys, ok \in BOOLEAN : NewPostSendSettle(t, ok)

SinglePath ==
    \/ \E doc \in UserDocs(req.recipientId) : SingleUserGet(doc)
    \/ SingleUserGetFail
    \/ \E ok \in BOOLEAN : SinglePushSettle(ok)
    \/ \E ok \in BOOLEAN : SingleSaveSettle(ok)

\* one request, of any endpoint, served from receipt to quiescence
Next ==
    \/ \E chatId \in {"c1", NULL}, senderId \in Users \cup {NULL},
          messageId \in {"m1", NULL} : ReceiveMessage(chatId, senderId, messageId)
    \/ \E postId \in {"p1", NULL}, userId \in Users \cup {NULL} :
          ReceiveNewPost(postId, userId)
    \/ \E e \in SingleEndpoints, recipientId \in Users \cup {NULL},
          actorId \in Users \cup {NULL}, refId \in {"p1", NULL},
          reactionType \in ReactionInputs :
          /\ e # "post-reaction" => reactionType = NULL
          /\ ReceiveSingle(e, recipientId, actorId, refId, reactionType)
    \/ MessagePath
    \/ NewPostPath
    \/ SinglePath

Spec == Init /\ [][Next]_vars

\* one message event, submitted up to MaxRequests times
NextRetry ==
    \/ ReceiveMessage("c1", "A", "m1")
    \/ RetryMessage
    \/ MessagePath

SpecRetry == Init /\ [][NextRetry]_vars


\* ------------------------------------------------------------------ OTP endpoints

OTP_EXPIRY_MINUTES == 5
MAX_OTP_ATTEMPTS == 3

\* how many send / resend requests can be waiting for the mailer at once
MaxInFlight == 2

\* OTP_EXPIRY_MINUTES * 60 * 1000
ExpiryMs == OTP_EXPIRY_MINUTES * 60 * 1000

\* the instants at which requests arrive: around the one-minute mark and the
\* expiry of an entry created at 0
Instants == { 0, 1, 60 * 1000 - 1, 60 * 1000, ExpiryMs, ExpiryMs + 1 }

\* what Math.random() returns, by the k with k/900000 <= Math.random() <
\* (k+1)/900000, that is Math.floor(Math.random() * 900000): the two ends
RandomDraws == { 0, 900000 - 1 }

\* a string the format check of /api/otp/send rejects
BadEmail == "u.x.io"

\* emailRegex.test(email), for the addresses of the model
EmailFormatOk(email) == email = Email

Digit == << "0", "1", "2", "3", "4", "5", "6", "7", "8", "9" >>

\* Number.prototype.toString for a non-negative integer, as a string of digits
RECURSIVE ToStr(_)
ToStr(n) ==
    IF n < 10 THEN << Digit[n + 1] >>
    ELSE Append(ToStr(n \div 10), Digit[(n % 10) + 1])

\* mutant: the offset that keeps the first digit non-zero is missing
generateOTP_NoOffset(r) == ToStr(r)

\* Math.floor(100000 + Math.random() * 900000).toString()
generateOTP(r) == ToStr(100000 + r)

\* String.prototype.trim on a string of characters
RECURSIVE TrimChars(_)
TrimChars(str) ==
    IF str = << >> THEN str
    ELSE IF Head(str) = BLANK THEN TrimChars(Tail(str))
    ELSE IF str[Len(str)] = BLANK THEN TrimChars(SubSeq(str, 1, Len(str) - 1))
    ELSE str

\* the otp field of a verify body: missing, a code the generator can produce,
\* such a code typed with blanks around it, a code it cannot produce
OtpInputs ==
    { << >>, ToStr(123456) } \cup
    { generateOTP(r) : r \in RandomDraws } \cup
    { << BLANK >> \o generateOTP(r) \o << BLANK >> : r \in RandomDraws }

\* mutant: Math.floor in place of Math.ceil
Ceil_Floor(a, b) == a \div b

\* Math.ceil(a / b) for a > 0
Ceil(a, b) == (a + b - 1) \div b

\* mutant: the entry is stored without the code
NewEntry_NoCode(otp, t) ==
    [present |-> TRUE, otp |-> << >>, expiresAt |-> t + ExpiryMs, attempts |-> 0,
     createdAt |-> t]

\* the entry both /send and /resend store
NewEntry(otp, t) ==
    [present |-> TRUE, otp |-> otp, expiresAt |-> t + ExpiryMs, attempts |-> 0,
     createdAt |-> t]

\* Math.ceil((existingOtp.expiresAt - Date.now()) / 1000)
RemainingSeconds(existingOtp, t) == Ceil(existingOtp.expiresAt - t, 1000)

\* mutant: an unexpired entry blocks a new one until a minute before it expires
RateLimited_UntilLastMinute(existingOtp, t) ==
    /\ existingOtp.present
    /\ existingOtp.expiresAt > t
    /\ Ceil(existingOtp.expiresAt - t, 1000) > 60

\* mutant: the comparison includes the boundary
RateLimited_Inclusive(existingOtp, t) ==
    /\ existingOtp.present
    /\ existingOtp.expiresAt > t
    /\ Ceil(existingOtp.expiresAt - t, 1000) >= OTP_EXPIRY_MINUTES * 60 - 60

\* mutant: no rate limit
RateLimited_Off(existingOtp, t) == FALSE

\* /send: an unexpired entry issued less than a minute ago blocks a new one
RateLimited(existingOtp, t) ==
    /\ existingOtp.present
    /\ existingOtp.expiresAt > t
    /\ RemainingSeconds(existingOtp, t) > OTP_EXPIRY_MINUTES * 60 - 60

\* 60 - ((OTP_EXPIRY_MINUTES * 60) - remainingSeconds)
RetryAfter(existingOtp, t) ==
    60 - (OTP_EXPIRY_MINUTES * 60 - RemainingSeconds(existingOtp, t))

\* mutant: the attempts test comes before the expiry test
IsExpired_UnlessExhausted(storedData, t) ==
    storedData.expiresAt < t /\ storedData.attempts < MAX_OTP_ATTEMPTS

\* storedData.expiresAt < Date.now()
IsExpired(storedData, t) == storedData.expiresAt < t

\* mutant: the attempts test lets one more through
AttemptsExhausted_Late(storedData) == storedData.attempts > MAX_OTP_ATTEMPTS

\* storedData.attempts >= MAX_OTP_ATTEMPTS
AttemptsExhausted(storedData) == storedData.attempts >= MAX_OTP_ATTEMPTS

\* !(storedData.otp !== otp.toString().trim())
OtpMatches(storedData, otp) == storedData.otp = TrimChars(otp)

\* mutant: a failure counts twice
AfterFailure_Twice(storedData) == [storedData EXCEPT !.attempts = @ + 2]

\* mutant: the entry is dropped by the failure that uses up the attempts
AfterFailure_DropAtMax(storedData) ==
    IF storedData.attempts + 1 >= MAX_OTP_ATTEMPTS THEN NoEntry
    ELSE [storedData EXCEPT !.attempts = @ + 1]

\* storedData.attempts += 1; otpStore.set(email, storedData)
AfterFailure(storedData) == [storedData EXCEPT !.attempts = @ + 1]

\* mutant: a verified entry stays in the store
AfterSuccess_Keep(storedData) == storedData

\* otpStore.delete(email) after a successful verification
AfterSuccess(storedData) == NoEntry

\* res.status(s).json(...), with the address the request named
OtpResponse(op, email, s) ==
    [NoOtpRes EXCEPT !.op = op, !.email = email, !.status = s]

\* mutant: a resend is rate-limited like a send
ResendLimited_AsSend(existingOtp, t) ==
    /\ existingOtp.present
    /\ existingOtp.expiresAt > t
    /\ Ceil(existingOtp.expiresAt - t, 1000) > OTP_EXPIRY_MINUTES * 60 - 60

\* /resend has no rate-limit check between the validation and the delete
ResendLimited(existingOtp, t) == FALSE

\* mutant: the catch block removes the entry
AfterMailFailure_Rollback(entry) == NoEntry

\* the catch block of /send and /resend leaves otpStore alone
AfterMailFailure(entry) == entry

\* the call frame of a send / resend request suspended at await sendOTPEmail:
\* its otp, and (history) whether the entry it stored is still the one in the
\* store
Frame(op, otp) == [op |-> op, otp |-> otp, current |-> TRUE]

\* the frames in flight once the entry in the store has been replaced or
\* deleted (at most one frame in flight owns the entry in the store)
Superseded(frames) ==
    LET img(g) == [g EXCEPT !.current = FALSE]
        count(f) == CopiesIn(f, frames) + CopiesIn([f EXCEPT !.current = TRUE], frames)
    IN  [ f \in { img(g) : g \in BagToSet(frames) } |-> count(f) ]

\* the op of the request in flight that stored the entry in the store, if any
OwnerInFlight(frames) ==
    IF \E f \in BagToSet(frames) : f.current
    THEN (CHOOSE f \in BagToSet(frames) : f.current).op
    ELSE NULL

\* mutant: the rate-limited return drops the entry it found
AfterRateLimit_Drop(existingOtp) == NoEntry

\* the entry after the 429 return: the branch neither sets nor deletes it
AfterRateLimit(existingOtp) == existingOtp

\* POST /api/otp/send up to the await of the mailer
OtpSend(email, r) ==
    /\ otpRes = NoOtpRes
    /\ otpMail = NoMail
    /\ BagCardinality(otpPending) < MaxInFlight
    /\ IF Falsy(email) \/ ~EmailFormatOk(email)
       THEN /\ otpRes' = [OtpResponse("send", email, 400) EXCEPT
                             !.pre = otpStore[Email],
                             !.inFlight = BagCardinality(otpPending)]
            /\ UNCHANGED << otpStore, otpPending, otpMail, consumed, replaced >>
       ELSE LET existingOtp == otpStore[email]
                otp == generateOTP(r)
            IN  IF RateLimited(existingOtp, now)
                THEN /\ otpRes' = [OtpResponse("send", email, 429) EXCEPT
                                      !.retryAfter = RetryAfter(existingOtp, now),
                                      !.pre = existingOtp,
                                      !.inFlight = BagCardinality(otpPending)]
                     /\ otpStore' = [otpStore EXCEPT
                                        ![email] = AfterRateLimit(existingOtp)]
                     /\ UNCHANGED << otpPending, otpMail, consumed, replaced >>
                ELSE /\ otpStore' = [otpStore EXCEPT ![email] = NewEntry(otp, now)]
                     /\ otpPending' = Superseded(otpPending)
                                        (+) SetToBag({Frame("send", otp)})
                     /\ otpMail' = [op |-> "send", otp |-> otp, pre |-> existingOtp,
                                    preOwner |-> OwnerInFlight(otpPending)]
                     /\ consumed' = << >>
                     /\ replaced' = << >>
                     /\ otpRes' = otpRes
    /\ now' = now
    /\ UNCHANGED notifyVars

\* POST /api/otp/resend up to the await of the mailer
OtpResend(email, r) ==
    /\ otpRes = NoOtpRes
    /\ otpMail = NoMail
    /\ BagCardinality(otpPending) < MaxInFlight
    /\ IF Falsy(email)
       THEN /\ otpRes' = [OtpResponse("resend", email, 400) EXCEPT
                             !.pre = otpStore[Email],
                             !.inFlight = BagCardinality(otpPending)]
            /\ UNCHANGED << otpStore, otpPending, otpMail, consumed, replaced >>
       ELSE LET existingOtp == otpStore[email]
                otp == generateOTP(r)
            IN  IF ResendLimited(existingOtp, now)
                THEN /\ otpRes' = [OtpResponse("resend", email, 429) EXCEPT
                                      !.pre = existingOtp]
                     /\ UNCHANGED << otpStore, otpPending, otpMail, consumed,
                                     replaced >>
                ELSE /\ otpStore' = [otpStore EXCEPT ![email] = NewEntry(otp, now)]
                     /\ otpPending' = Superseded(otpPending)
                                        (+) SetToBag({Frame("resend", otp)})
                     /\ otpMail' = [op |-> "resend", otp |-> otp, pre |-> existingOtp,
                                    preOwner |-> OwnerInFlight(otpPending)]
                     /\ consumed' = << >>
                     /\ replaced' = existingOtp.otp
                     /\ otpRes' = otpRes
    /\ now' = now
    /\ UNCHANGED notifyVars

\* sendOTPEmail has called emailTransporter.sendMail and the handler is
\* suspended at its await
OtpMailStarted ==
    /\ otpMail # NoMail
    /\ otpMail' = NoMail
    /\ UNCHANGED << otpStore, now, otpPending, otpRes, consumed, replaced >>
    /\ UNCHANGED notifyVars

\* await sendOTPEmail settles: the success response, or the catch block's 500
OtpMailSettle(p, ok) ==
    /\ otpRes = NoOtpRes
    /\ otpMail = NoMail
    /\ BagIn(p, otpPending)
    /\ otpPending' = otpPending (-) SetToBag({p})
    /\ LET answer(s) == [OtpResponse(p.op, Email, s) EXCEPT
                            !.otp = p.otp, !.current = p.current,
                            !.pre = otpStore[Email]]
       IN  IF ok
           THEN /\ otpRes' = [answer(200) EXCEPT !.success = TRUE,
                                 !.expiresIn = OTP_EXPIRY_MINUTES * 60]
                /\ otpStore' = otpStore
           ELSE /\ otpRes' = answer(500)
                /\ otpStore' = [otpStore EXCEPT ![Email] = AfterMailFailure(@)]
    /\ UNCHANGED << now, otpMail, consumed, replaced >>
    /\ UNCHANGED notifyVars

\* POST /api/otp/verify: the handler has no await and runs as one step
OtpVerify(email, otp) ==
    /\ otpRes = NoOtpRes
    /\ otpMail = NoMail
    /\ IF Falsy(email) \/ otp = << >>
       THEN /\ otpRes' = [OtpResponse("verify", email, 400) EXCEPT
                             !.otp = otp, !.pre = otpStore[Email],
                             !.inFlight = BagCardinality(otpPending)]
            /\ UNCHANGED << otpStore, otpPending, consumed >>
       ELSE LET storedData == otpStore[email]
                answer(code) == [OtpResponse("verify", email, 400) EXCEPT
                                    !.code = code, !.otp = otp, !.pre = storedData]
            IN  /\ IF ~storedData.present
                   THEN /\ otpRes' = answer("OTP_NOT_FOUND")
                        /\ UNCHANGED << otpStore, consumed >>
                   ELSE IF IsExpired(storedData, now)
                   THEN /\ otpStore' = [otpStore EXCEPT ![email] = NoEntry]
                        /\ otpRes' = answer("OTP_EXPIRED")
                        /\ UNCHANGED consumed
                   ELSE IF AttemptsExhausted(storedData)
                   THEN /\ otpStore' = [otpStore EXCEPT ![email] = NoEntry]
                        /\ otpRes' = answer("TOO_MANY_ATTEMPTS")
                        /\ UNCHANGED consumed
                   ELSE IF ~OtpMatches(storedData, otp)
                   THEN /\ otpStore' = [otpStore EXCEPT ![email] = AfterFailure(storedData)]
                        /\ otpRes' = [answer("INVALID_OTP") EXCEPT
                                         !.remainingAttempts =
                                             MAX_OTP_ATTEMPTS - (storedData.attempts + 1)]
                        /\ UNCHANGED consumed
                   ELSE /\ otpStore' = [otpStore EXCEPT ![email] = AfterSuccess(storedData)]
                        /\ otpRes' = [OtpResponse("verify", email, 200) EXCEPT
                                         !.success = TRUE, !.otp = otp, !.pre = storedData]
                        /\ consumed' = storedData.otp
                /\ otpPending' = IF storedData.present /\ ~otpStore'[email].present
                                 THEN Superseded(otpPending)
                                 ELSE otpPending
    /\ UNCHANGED << now, otpMail, replaced >>
    /\ UNCHANGED notifyVars

\* the response has left; the next request or callback runs
OtpResponseSent ==
    /\ otpRes # NoOtpRes
    /\ otpRes' = NoOtpRes
    /\ UNCHANGED << otpStore, now, otpPending, otpMail, consumed, replaced >>
    /\ UNCHANGED notifyVars

\* time passes
Tick(t) ==
    /\ otpRes = NoOtpRes
    /\ otpMail = NoMail
    /\ t > now
    /\ now' = t
    /\ UNCHANGED << otpStore, otpPending, otpMail, otpRes, consumed, replaced >>
    /\ UNCHANGED notifyVars

\* the OTP endpoints for one address, with requests overlapping at the mailer
NextOtp ==
    \/ \E email \in {Email, BadEmail, NULL}, r \in RandomDraws : OtpSend(email, r)
    \/ \E email \in {Email, NULL}, r \in RandomDraws : OtpResend(email, r)
    \/ OtpMailStarted
    \/ \E email \in {Email, NULL}, otp \in OtpInputs : OtpVerify(email, otp)
    \/ \E p \in BagToSet(otpPending), ok \in BOOLEAN : OtpMailSettle(p, ok)
    \/ OtpResponseSent
    \/ \E t \in Instants : Tick(t)

SpecOtp == Init /\ [][NextOtp]_vars

\* no OTP request has been made yet
OtpIdle ==
    /\ otpStore = [e \in {Email} |-> NoEntry]
    /\ now = 0
    /\ otpPending = EmptyBag
    /\ otpMail = NoMail
    /\ otpRes = NoOtpRes
    /\ consumed = << >>
    /\ replaced = << >>

\* no /send or /resend waits for the mailer
MailerIdle == otpPending = EmptyBag

\* the whole server, one request at a time: the handlers of different
\* requests never wait for one another, so a run serves either one
\* notification request or a sequence of OTP requests
NextServer ==
    \/ OtpIdle /\ Next
    \/ /\ pc = "idle"
       /\ \/ MailerIdle /\ \E email \in {Email, BadEmail, NULL}, r \in RandomDraws :
                              OtpSend(email, r)
          \/ MailerIdle /\ \E email \in {Email, NULL}, r \in RandomDraws :
                              OtpResend(email, r)
          \/ OtpMailStarted
          \/ MailerIdle /\ \E email \in {Email, NULL}, otp \in OtpInputs :
                              OtpVerify(email, otp)
          \/ \E p \in BagToSet(otpPending), ok \in BOOLEAN : OtpMailSettle(p, ok)
          \/ OtpResponseSent
          \/ \E t \in Instants : Tick(t)

\* every promise a handler awaits settles, and every callback that is ready
\* runs: the event loop starves none
Fairness ==
    /\ WF_vars(MessagePath)
    /\ WF_vars(NewPostPath)
    /\ WF_vars(SinglePath)
    /\ WF_vars(OtpMailStarted)
    /\ WF_vars(OtpResponseSent)
    /\ WF_vars(\E p \in BagToSet(otpPending), ok \in BOOLEAN : OtpMailSettle(p, ok))

SpecServer == Init /\ [][NextServer]_vars /\ Fairness


\* ------------------------------------------------------------------ properties

Responded == pc = "responded"

\* the records the current request persisted, and whom they are for
ThisRequestRecords == { n \in notifications : n.id[1] = reqNo }
Recorded == { n.recipientId : n \in ThisRequestRecords }

\* the tokens the current request handed to FCM
Pushed == { m.token : m \in { x \in BagToSet(fcm) : x.reqNo = reqNo } }

\* the directory gave u a registered address (a non-blank token)
HasAddress(u) ==
    /\ tokenResults[u].st = "done"
    /\ tokenResults[u].exists
    /\ tokenResults[u].fcmToken \notin {NULL, EMPTY, BLANK}

\* a push was attempted to the address the directory gave for u
PushedTo(u) ==
    /\ tokenResults[u].st = "done"
    /\ tokenResults[u].fcmToken \in Pushed

\* a message request that found its chat has answered
MessageResolved == Responded /\ req.endpoint = "message" /\ chatData.exists

\* M minus {s}, and U
Recipients == chatData.UID \ {req.actorId}
Muted == chatData.mutedUsers

WriteIssued(u) == saves[u] \in {"ok", "fail"}

\* C1 as stated: on the message path no push is attempted to a muted user,
\* every muted member other than the sender has a persisted record, and every
\* non-muted recipient with an address is pushed to.
C1_Original ==
    /\ req.endpoint = "message" => \A u \in Muted : ~PushedTo(u)
    /\ MessageResolved => \A u \in Recipients \cap Muted : u \in Recorded
    /\ MessageResolved /\ res.status = 200 =>
          \A v \in Recipients \ Muted : HasAddress(v) => PushedTo(v)

\* C1 amended: on the message path no push is ever attempted to a muted user;
\* for every muted member other than the sender the record write is issued
\* and the record is persisted exactly when the store accepted that write; and
\* in a successful response every non-muted recipient with an address was
\* pushed to, whoever else is muted.
C1_MuteSplit ==
    /\ req.endpoint = "message" => \A u \in Muted : ~PushedTo(u)
    /\ MessageResolved =>
          \A u \in Recipients \cap Muted :
              /\ WriteIssued(u)
              /\ (u \in Recorded) <=> (saves[u] = "ok")
    /\ MessageResolved /\ res.status = 200 =>
          \A v \in Recipients \ Muted : HasAddress(v) => PushedTo(v)

\* members {A,B,C}, sender A, muted {B}: push to C only, records for B and C
C1_Witness ==
    /\ MessageResolved
    /\ chatData.UID = {"A", "B", "C"}
    /\ req.actorId = "A"
    /\ Muted = {"B"}
    /\ Pushed = {TokenOf("C")}
    /\ Recorded = {"B", "C"}

\* C2 as stated: a message request that found its chat persisted as many
\* records as there are members other than the sender.
C2_Original ==
    MessageResolved => Cardinality(ThisRequestRecords) = Cardinality(Recipients)

\* C2 amended: a message request that found its chat issued one record write
\* per member other than the sender, whatever the muted set and the push
\* outcomes, and persisted as many records as that set has members minus the
\* writes the store rejected.
C2_SavedCount ==
    MessageResolved =>
      /\ { u \in Users : saves[u] # "none" } = Recipients
      /\ \A u \in Recipients : WriteIssued(u)
      /\ Recorded = { u \in Recipients : saves[u] = "ok" }
      /\ Cardinality(ThisRequestRecords) =
            Cardinality(Recipients) - Cardinality({ u \in Users : saves[u] = "fail" })

\* a muted recipient, a rejected write, a rejected send, and a record persisted
C2_Witness ==
    /\ MessageResolved
    /\ Recipients \cap Muted # {}
    /\ \E u \in Users : saves[u] = "fail"
    /\ \E t \in SendKeys : sends[t] = "rejected"
    /\ ThisRequestRecords # {}

\* C3 as stated, for the handlers that persist: once a request has attempted
\* its push to a recipient other than the actor (single-recipient handlers) or
\* resolved its chat (message), each recipient has its record write issued
\* whether the push succeeded or failed, and the record is there unless the
\* store rejected the write.
C3_Original ==
    /\ MessageResolved =>
          \A u \in Recipients : WriteIssued(u) /\ (saves[u] = "ok" => u \in Recorded)
    /\ ( /\ Responded
         /\ req.endpoint \in SingleEndpoints
         /\ Persists(req.endpoint)
         /\ req.recipientId # req.actorId
         /\ \E t \in Tokens : sends[t] \in {"fulfilled", "rejected"} )
       => /\ WriteIssued(req.recipientId)
          /\ saves[req.recipientId] = "ok" => req.recipientId \in Recorded

\* C4 as stated: a request one of whose sends to a registered address of
\* someone other than the actor was rejected by the push provider still
\* answers success.
C4_Original ==
    Responded /\ (\E u \in Users \ {req.actorId} : sends[TokenOf(u)] = "rejected")
        => res.status = 200 /\ res.success

\* the batch endpoints, and a batch response that reports a dispatch
Batch == req.endpoint \in {"message", "new-post"}
Dispatched == Responded /\ Batch /\ res.total # -1

\* C5 as stated, for new-post: when the response reports a dispatch, every
\* resolved follower (other than the poster) with an address was pushed to
\* and had its record write issued.
C5_Original ==
    Dispatched /\ req.endpoint = "new-post" =>
        \A u \in pushRecipientIds \ {req.actorId} :
            /\ HasAddress(u) => PushedTo(u)
            /\ WriteIssued(u)

\* the recipients a batch may push to, from what the request read
Eligible ==
    IF req.endpoint = "message" THEN Recipients \ Muted ELSE pushRecipientIds

\* the addresses the directory gave for them
ResolvedAddresses == { tokenResults[u].fcmToken : u \in { v \in Eligible : HasAddress(v) } }

\* C6: in a batch, the sends launched are exactly one per resolved address;
\* the response waits for every one of them, whichever were rejected and in
\* whatever order they settled; and sent is the number that were fulfilled.
C6_FanOut ==
    Batch =>
      /\ \A t \in SendKeys :
            CopiesIn(FcmMessage(t), fcm) = (IF sends[t] # "none" THEN 1 ELSE 0)
      /\ pc = "sending" =>
            /\ res = NoRes
            /\ { t \in SendKeys : sends[t] # "none" } = ResolvedAddresses
      /\ Dispatched =>
            /\ { t \in SendKeys : sends[t] # "none" } = ResolvedAddresses
            /\ \A t \in ResolvedAddresses : sends[t] \in {"fulfilled", "rejected"}
            /\ res.sent = Cardinality({ t \in SendKeys : sends[t] = "fulfilled" })
            /\ res.total - res.sent =
                  Cardinality({ t \in SendKeys : sends[t] = "rejected" })

\* three sends, one of them rejected, two fulfilled
C6_Witness ==
    /\ Dispatched
    /\ res.total = 3
    /\ res.sent = 2
    /\ \E t \in SendKeys : sends[t] = "rejected"

\* C7: a batch response that reports a dispatch has sent <= total, and total
\* is the number of push-eligible recipients (message: members minus sender
\* minus muted; new-post: followers) whose directory entry holds a non-empty
\* (non-blank) token; the others are not attempted.
C7_Total ==
    Dispatched =>
      /\ res.sent <= res.total
      /\ res.total = Cardinality({ u \in Eligible : HasAddress(u) })
      /\ Pushed = ResolvedAddresses
      /\ \A u \in Eligible : ~HasAddress(u) => sends[TokenOf(u)] = "none"

\* three eligible recipients: one unknown, one without a token, one counted
C7_Witness ==
    /\ Dispatched
    /\ Cardinality(Eligible) = 3
    /\ \E u \in Eligible : tokenResults[u].st = "done" /\ ~tokenResults[u].exists
    /\ \E u \in Eligible : tokenResults[u].exists /\ tokenResults[u].fcmToken = NULL
    /\ res.total = 1

\* the one message event the retry specification submits
SameEvent(n) ==
    /\ n.type = "new_message"
    /\ n.roomId = "c1"
    /\ n.senderId = "A"
    /\ n.messageId = "m1"

\* C8 as stated: however often the same message event is submitted, a
\* recipient holds at most one record for it.
C8_Original ==
    \A r \in Users :
        Cardinality({ n \in notifications : n.recipientId = r /\ SameEvent(n) }) <= 1

\* C9: on the message path a rejected record write stops nothing: the handler
\* goes on only when every recipient's write has settled, a request with a
\* rejected write answers 500 only when a directory lookup raised, and its
\* success response comes after the push to every eligible address.
C9_WriteFailureLocal ==
    req.endpoint = "message" /\ chatData.exists =>
      /\ pc \in {"lookup", "sending", "responded"} =>
            \A u \in Recipients : WriteIssued(u)
      /\ Responded /\ (\E u \in Users : saves[u] # "none" /\ saves[u] # "ok") =>
            /\ res.status = 200 \/ \E u \in Users : tokenResults[u].st = "error"
            /\ res.status = 200 => res.success /\ Pushed = ResolvedAddresses

\* one write rejected, its sibling persisted, and a push delivered
C9_Witness ==
    /\ MessageResolved
    /\ \E u \in Users : saves[u] = "fail"
    /\ \E u \in Users : saves[u] = "ok" /\ u \in Recorded
    /\ res.status = 200
    /\ res.sent >= 1

\* C10 as stated: the acting user of a request gets no push to their
\* registered address and no record.
C10_Original ==
    req.actorId \in Users =>
      /\ ~(HasAddress(req.actorId) /\ PushedTo(req.actorId))
      /\ req.actorId \notin Recorded

\* ------------------------------------------------------------------ C11..C16

\* no lookup, send or record write of the current request was ever started
NoExternalCall ==
    /\ \A u \in Users : tokenResults[u].st = "none" /\ saves[u] = "none"
    /\ \A t \in SendKeys : sends[t] = "none"
    /\ Pushed = {}
    /\ Recorded = {}

\* a request to one of the six handlers with a self-action check, all its
\* required fields present, in which the actor is the owner / recipient
SelfAction ==
    /\ req.endpoint \in { "post-comment", "post-reaction", "post-share",
                         "comment-reply", "comment-like", "mention" }
    /\ ~Falsy(req.recipientId)
    /\ req.actorId = req.recipientId
    /\ req.endpoint # "mention" => ~Falsy(req.refId)

\* C11: a post-comment, post-reaction, post-share, comment-reply, comment-like
\* or mention request with all required fields in which the actor is the
\* owner / recipient is answered at once with {success: true, sent: 0}, and
\* no lookup, no send and no record write is ever made for it.
C11_SelfAction ==
    SelfAction =>
      /\ Responded
      /\ res.status = 200 /\ res.success /\ res.sent = 0
      /\ NoExternalCall

\* a user mentioning themself
C11_Witness ==
    /\ SelfAction
    /\ req.endpoint = "mention"
    /\ req.actorId = "B"
    /\ Responded
    /\ res.sent = 0

\* the chat read of a message request came back without a document
ChatMissing == req.endpoint = "message" /\ chatData.read /\ ~chatData.exists

\* C12: a message request whose chatId names no conversation is answered 404,
\* and no record is written, no address looked up and no push sent for it.
C12_ChatNotFound ==
    ChatMissing =>
      /\ Responded
      /\ res.status = 404 /\ ~res.success
      /\ NoExternalCall

C12_Witness ==
    /\ ChatMissing
    /\ req.actorId = "A"
    /\ res.status = 404
    /\ notifications = {}
    /\ fcm = EmptyBag

\* a single-recipient request whose directory lookup has come back
SingleLookedUp ==
    /\ req.endpoint \in SingleEndpoints
    /\ req.recipientId \in Users
    /\ tokenResults[req.recipientId].st = "done"

\* C13: on every single-recipient endpoint, a recipient the directory does not
\* know gets the request a 404 and a known recipient without a registered
\* address (no token, or an empty one) a 400; in both cases no push is sent
\* and no record written.
C13_SingleLookup ==
    SingleLookedUp =>
      LET r == tokenResults[req.recipientId]
      IN  /\ ~r.exists =>
                Responded /\ res.status = 404 /\ Pushed = {} /\ Recorded = {}
          /\ r.exists /\ r.fcmToken = NULL =>
                Responded /\ res.status = 400 /\ Pushed = {} /\ Recorded = {}

\* both cases are reached on an endpoint without a self-action check
C13_Witness ==
    /\ SingleLookedUp
    /\ req.endpoint = "group-invite"
    /\ ~tokenResults[req.recipientId].exists
    /\ res.status = 404
    /\ fcm = EmptyBag

\* every lookup of a batch has come back (none was rejected)
LookupsDone == Eligible # {} /\ \A u \in Eligible : tokenResults[u].st = "done"

\* C14: in a batch whose lookups all came back, whichever of them came back
\* without an address, the request is answered with success and a send was
\* started to every address that was found; when none was found, or the
\* recipient set is empty, the success response says sent: 0 and nothing is
\* sent.
C14_BatchTolerant ==
    Batch /\ Responded =>
      /\ LookupsDone =>
            /\ res.status = 200 /\ res.success
            /\ Pushed = ResolvedAddresses
      /\ res.status = 200 /\ ResolvedAddresses = {} =>
            res.sent = 0 /\ Pushed = {}

\* three followers, two of them without an address, one push
C14_Witness ==
    /\ Responded
    /\ req.endpoint = "new-post"
    /\ Eligible = {"A", "B", "C"}
    /\ LookupsDone
    /\ ~tokenResults["A"].exists
    /\ tokenResults["B"].exists /\ tokenResults["B"].fcmToken = NULL
    /\ Pushed = {TokenOf("C")}
    /\ res.sent = 1

\* C15 as stated: when the response has been sent, no sub-operation the
\* request launched (lookup, send, record write) is still in flight.
C15_Original ==
    Responded =>
      /\ \A u \in Users : tokenResults[u].st # "pending" /\ saves[u] # "pending"
      /\ \A t \in SendKeys : sends[t] # "pending"

\* C16: on the message path nothing is written or sent before the conversation
\* record has been read and the recipient sets computed from it, and every
\* record write is for a member other than the sender, every lookup and every
\* send for such a member who is not muted.
C16_ResolveFirst ==
    req.endpoint = "message" =>
      /\ ~chatData.read => NoExternalCall
      /\ allRecipientIds # {} \/ pushRecipientIds # {} => chatData.read
      /\ { u \in Users : saves[u] # "none" } \subseteq Recipients
      /\ Recorded \subseteq Recipients
      /\ { u \in Users : tokenResults[u].st # "none" } \subseteq Recipients \ Muted
      /\ \A t \in Pushed :
            \E u \in Recipients \ Muted :
                tokenResults[u].st = "done" /\ tokenResults[u].fcmToken = t

\* members {A,B,C}, sender A, B muted: records for B and C, a push for C only
C16_Witness ==
    /\ req.endpoint = "message"
    /\ Responded
    /\ chatData.UID = {"A", "B", "C"}
    /\ req.actorId = "A"
    /\ Muted = {"B"}
    /\ { u \in Users : saves[u] # "none" } = {"B", "C"}
    /\ { u \in Users : tokenResults[u].st # "none" } = {"C"}
    /\ Pushed = {TokenOf("C")}

\* ------------------------------------------------------------------ C17..C20

\* a verify request naming the address and a code is being answered; pre is
\* the entry it found and the store holds what it left
VerifyAnswered ==
    otpRes.op = "verify" /\ otpRes.email = Email /\ otpRes.otp # << >>

\* the verify being answered found an unexpired entry
FoundUnexpired == otpRes.pre.present /\ ~(otpRes.pre.expiresAt < now)

\* the code it named is the code of the entry it found
NamedStoredCode == TrimChars(otpRes.otp) = otpRes.pre.otp

\* C17: a verify naming the stored code, before expiry and with attempts left,
\* succeeds and deletes the entry, and nothing else makes a verify succeed; a
\* verify that finds no entry is answered OTP_NOT_FOUND; and once a verify has
\* succeeded the address has no entry until an Issue or Resend stores one, so
\* the same code is answered OTP_NOT_FOUND from then on.
C17_VerifyOnce ==
    /\ VerifyAnswered =>
          LET good == /\ FoundUnexpired
                      /\ otpRes.pre.attempts < MAX_OTP_ATTEMPTS
                      /\ NamedStoredCode
          IN  /\ good => otpRes.success /\ otpRes.status = 200
                           /\ ~otpStore[Email].present
              /\ otpRes.success => good
              /\ ~otpRes.pre.present =>
                    /\ otpRes.code = "OTP_NOT_FOUND" /\ otpRes.status = 400
                    /\ ~otpStore[Email].present
    /\ consumed # << >> => ~otpStore[Email].present

\* the code that was verified is named again and answered OTP_NOT_FOUND
C17_Witness ==
    /\ VerifyAnswered
    /\ consumed # << >>
    /\ TrimChars(otpRes.otp) = consumed
    /\ otpRes.code = "OTP_NOT_FOUND"

\* C18: while the entry is unexpired, a wrong code against an entry with k < 3
\* failed attempts is answered INVALID_OTP with remainingAttempts 2 - k (2, 1,
\* 0 for the first three) and leaves k + 1 attempts; against an entry with 3
\* attempts every code, the stored one included, is answered
\* TOO_MANY_ATTEMPTS; and no verify that finds 3 attempts ever succeeds.
C18_AttemptLimit ==
    /\ otpStore[Email].attempts <= MAX_OTP_ATTEMPTS
    /\ VerifyAnswered /\ FoundUnexpired =>
          /\ otpRes.pre.attempts < MAX_OTP_ATTEMPTS /\ ~NamedStoredCode =>
                /\ otpRes.code = "INVALID_OTP" /\ otpRes.status = 400
                /\ otpRes.remainingAttempts =
                      MAX_OTP_ATTEMPTS - 1 - otpRes.pre.attempts
                /\ otpRes.remainingAttempts \in {2, 1, 0}
                /\ otpStore[Email].present
                /\ otpStore[Email].attempts = otpRes.pre.attempts + 1
          /\ otpRes.pre.attempts >= MAX_OTP_ATTEMPTS =>
                otpRes.code = "TOO_MANY_ATTEMPTS" /\ otpRes.status = 400
    /\ VerifyAnswered /\ otpRes.pre.attempts >= MAX_OTP_ATTEMPTS => ~otpRes.success

\* the fourth attempt names the stored code and is answered TOO_MANY_ATTEMPTS
C18_Witness ==
    /\ VerifyAnswered
    /\ otpRes.pre.present
    /\ otpRes.pre.attempts = 3
    /\ NamedStoredCode
    /\ otpRes.code = "TOO_MANY_ATTEMPTS"

\* the verify being answered is the failure that used up the attempts
LastAttemptFailed ==
    VerifyAnswered /\ otpRes.code = "INVALID_OTP" /\ otpRes.remainingAttempts = 0

\* C19 as stated: after the wrong verification that brings attempts to the
\* maximum, the store holds no entry for the address.
C19_Original == LastAttemptFailed => ~otpStore[Email].present

\* C19 amended: the wrong verification that brings attempts to the maximum
\* leaves the entry in the store with attempts = 3; the entry is deleted by the
\* next verify that finds it, which cannot succeed.
C19_DeletedByNextVerify ==
    /\ LastAttemptFailed =>
          otpStore[Email].present /\ otpStore[Email].attempts = MAX_OTP_ATTEMPTS
    /\ VerifyAnswered /\ otpRes.pre.present
          /\ otpRes.pre.attempts >= MAX_OTP_ATTEMPTS =>
          /\ ~otpStore[Email].present
          /\ otpRes.code \in {"TOO_MANY_ATTEMPTS", "OTP_EXPIRED"}

C19_Witness ==
    /\ LastAttemptFailed
    /\ otpRes.pre.attempts = 2
    /\ otpStore[Email].present
    /\ otpStore[Email].attempts = 3

\* C20 as stated: once a resend has replaced an entry, a verify naming the
\* replaced code never succeeds.
C20_Original ==
    VerifyAnswered /\ replaced # << >> /\ TrimChars(otpRes.otp) = replaced =>
        ~otpRes.success

\* ------------------------------------------------------------------ C21..C30

\* C28 as stated: whenever the reactionType of a post-reaction request is not
\* one of like, love, haha, wow, sad, angry (an absent one included), the push
\* it sends renders the glyph of "like".
C28_Original ==
    req.endpoint = "post-reaction"
      /\ req.reactionType \notin {"like", "love", "haha", "wow", "sad", "angry"} =>
        \A m \in BagToSet(fcm) : m.reqNo = reqNo => m.emoji = "thumbs-up"

\* the sync part of a /send or /resend has just stored its entry and handed
\* its mail over; otpMail.pre is the entry it found
IssueAccepted == otpMail.op = "send"
ResendAccepted == otpMail.op = "resend"

\* a /send is being answered 429; otpRes.pre is the entry it found
IssueRejected == otpRes.op = "send" /\ otpRes.status = 429

\* await sendOTPEmail has settled and the request is being answered
MailAnswered == otpRes.op \in {"send", "resend"} /\ otpRes.status \in {200, 500}

\* existingOtp && existingOtp.expiresAt > Date.now(), as the claims word it
Active(e) == e.present /\ e.expiresAt > now

\* milliseconds since e was created
Age(e) == now - e.createdAt

\* C21 as stated: an Issue that finds an active entry created within the last
\* 240 s is rejected (never accepted), and a rejected Issue found such an
\* entry.
C21_Original ==
    /\ IssueAccepted =>
          ~(Active(otpMail.pre) /\ Age(otpMail.pre) < ExpiryMs - 60 * 1000)
    /\ IssueRejected =>
          Active(otpRes.pre) /\ Age(otpRes.pre) < ExpiryMs - 60 * 1000

\* C21 amended: an Issue that finds an active entry created within the last
\* 60 s (while more than 240 s of its 300 s window remain) is rejected with
\* 429 and a retry-after between 1 and 60 and changes nothing; every other
\* Issue for a valid address is accepted.
C21_FirstMinute ==
    /\ IssueAccepted => ~(Active(otpMail.pre) /\ Age(otpMail.pre) < 60 * 1000)
    /\ IssueRejected =>
          /\ Active(otpRes.pre) /\ Age(otpRes.pre) < 60 * 1000
          /\ otpRes.pre.expiresAt - now > ExpiryMs - 60 * 1000
          /\ otpRes.retryAfter \in 1..60
          /\ otpStore[Email] = otpRes.pre

\* an Issue accepted although the entry it found is active and younger than
\* 240 s
C21_Witness ==
    /\ IssueAccepted
    /\ Active(otpMail.pre)
    /\ Age(otpMail.pre) < ExpiryMs - 60 * 1000
    /\ otpStore[Email].createdAt = now

\* C22: an Issue is rejected as rate-limited only when the address has an
\* entry created less than 60 s earlier, and is never accepted then; 60 s or
\* more after the creation, exactly 60 s included, it is accepted.
C22_Boundary ==
    /\ IssueRejected => otpRes.pre.present /\ now < otpRes.pre.createdAt + 60 * 1000
    /\ IssueAccepted /\ otpMail.pre.present =>
          now >= otpMail.pre.createdAt + 60 * 1000

\* an Issue accepted exactly 60 s after the creation of the entry it found
C22_Witness ==
    /\ IssueAccepted
    /\ otpMail.pre.present
    /\ now = otpMail.pre.createdAt + 60 * 1000

\* C23: a verify arriving at now > expiresAt deletes the entry and is answered
\* OTP_EXPIRED whatever the code and the attempts count, and never success.
C23_ExpiredFirst ==
    VerifyAnswered /\ otpRes.pre.present /\ now > otpRes.pre.expiresAt =>
        /\ otpRes.code = "OTP_EXPIRED" /\ otpRes.status = 400
        /\ ~otpRes.success
        /\ ~otpStore[Email].present

\* the stored code, against an entry with its attempts used up, after expiry
C23_Witness ==
    /\ VerifyAnswered
    /\ otpRes.pre.present
    /\ now > otpRes.pre.expiresAt
    /\ otpRes.pre.attempts = 3
    /\ NamedStoredCode
    /\ otpRes.code = "OTP_EXPIRED"

\* C24: attempts of a stored entry is always within 0..3; a verify that leaves
\* the entry in the store leaves it the same entry with attempts not lower
\* than it found; the mail settling does not touch the entry; and every
\* accepted Issue or Resend stores attempts = 0.
C24_AttemptsMonotone ==
    /\ otpStore[Email].present => otpStore[Email].attempts \in 0..MAX_OTP_ATTEMPTS
    /\ IssueAccepted \/ ResendAccepted =>
          otpStore[Email].present /\ otpStore[Email].attempts = 0
    /\ otpRes.op = "verify" /\ otpRes.pre.present /\ otpStore[Email].present =>
          /\ otpStore[Email].attempts >= otpRes.pre.attempts
          /\ [otpStore[Email] EXCEPT !.attempts = otpRes.pre.attempts] = otpRes.pre
    /\ MailAnswered \/ IssueRejected => otpStore[Email] = otpRes.pre

\* a resend replaces an entry with failed attempts
C24_Witness ==
    /\ ResendAccepted
    /\ otpMail.pre.attempts = 2
    /\ otpStore[Email].attempts = 0

\* C25: a Resend naming an address is never answered 429; whatever entry it
\* finds, it leaves a fresh entry holding the code it generated, attempts 0
\* and the full expiry window, and hands that code to the mailer, as an
\* accepted Issue does.
C25_ResendUnlimited ==
    /\ otpRes.op = "resend" =>
          /\ otpRes.status \in {400, 200, 500}
          /\ otpRes.status = 400 => Falsy(otpRes.email)
    /\ IssueAccepted \/ ResendAccepted =>
          otpStore[Email] =
              [present |-> TRUE, otp |-> otpMail.otp,
               expiresAt |-> now + OTP_EXPIRY_MINUTES * 60 * 1000,
               attempts |-> 0, createdAt |-> now]

\* a resend at the very instant the entry it replaces was created
C25_Witness ==
    /\ ResendAccepted
    /\ otpMail.pre.present
    /\ otpMail.pre.createdAt = now
    /\ otpMail.pre.otp # otpMail.otp
    /\ otpStore[Email].otp = otpMail.otp

\* a /send or /resend whose mail send failed is being answered
MailFailed == otpRes.op \in {"send", "resend"} /\ otpRes.status = 500

SixDigits(code) ==
    /\ Len(code) = 6
    /\ \A i \in 1..Len(code) : \E d \in 1..10 : code[i] = Digit[d]

\* C27: every code an Issue or Resend generates, stores and mails is exactly
\* six decimal digits.
C27_SixDigits ==
    /\ otpStore[Email].present => SixDigits(otpStore[Email].otp)
    /\ IssueAccepted \/ ResendAccepted => SixDigits(otpMail.otp)

\* the lowest and the highest draw of the random source
C27_Witness ==
    /\ ResendAccepted
    /\ otpMail.pre.otp = << "1", "0", "0", "0", "0", "0" >>
    /\ otpMail.otp = << "9", "9", "9", "9", "9", "9" >>

\* an Issue or Resend is being answered success
MailSucceeded == otpRes.op \in {"send", "resend"} /\ otpRes.success

\* C29 as stated: when an Issue or Resend returns success, the entry stored
\* for the address holds the code that request mailed.
C29_Original ==
    MailSucceeded =>
        otpStore[Email].present /\ otpStore[Email].otp = otpRes.otp

\* C29 amended: when an Issue or Resend returns success and no other Issue or
\* Resend replaced and no Verify deleted the entry it stored while its mail
\* was in flight, the entry stored for the address holds the code it mailed;
\* and at most one request in flight still owns the entry in the store.
C29_UnlessSuperseded ==
    /\ MailSucceeded /\ otpRes.current =>
          otpStore[Email].present /\ otpStore[Email].otp = otpRes.otp
    /\ Cardinality({ f \in BagToSet(otpPending) : f.current }) <= 1
    /\ \A f \in BagToSet(otpPending) : f.current =>
          /\ CopiesIn(f, otpPending) = 1
          /\ otpStore[Email].present /\ otpStore[Email].otp = f.otp

\* success for the request that owns the entry while an overtaken one is
\* still waiting for the mailer
C29_Witness ==
    /\ MailSucceeded
    /\ otpRes.current
    /\ otpStore[Email].otp = otpRes.otp
    /\ \E f \in BagToSet(otpPending) : ~f.current /\ f.otp # otpRes.otp

\* C30: the rate-limit check and the store of /send are one step: a /send is
\* never accepted while another /send that stored the entry less than 60 s
\* earlier is still in flight and that entry is in the store; it is answered
\* 429 instead, stores nothing and sends no mail.
C30_CheckAndStoreAtomic ==
    /\ IssueAccepted /\ otpMail.preOwner = "send" =>
          otpMail.pre.present /\ Age(otpMail.pre) >= 60 * 1000
    /\ IssueRejected =>
          /\ otpStore[Email] = otpRes.pre
          /\ otpMail = NoMail

\* a second /send arrives while the first waits for the mailer and gets 429
C30_Witness ==
    /\ IssueRejected
    /\ \E f \in BagToSet(otpPending) :
          f.op = "send" /\ f.current /\ f.otp = otpRes.pre.otp

\* ------------------------------------------------------------------ C31

\* a record write of the current request for u has been started
WriteStarted(u) == saves[u] # "none" \/ u \in Recorded

\* C31: in a single-recipient handler a record write is started only for the
\* request's recipient and only after the push to the address the directory
\* gave for that recipient was fulfilled; a request that answered 404 (unknown
\* recipient), 400 (no address) or whose push was rejected has started no write.
C31_WriteAfterPush ==
    req.endpoint \in SingleEndpoints =>
        /\ \A u \in Users :
              WriteStarted(u) =>
                  /\ u = req.recipientId
                  /\ tokenResults[u].st = "done"
                  /\ LookupStatus(tokenResults[u]) = 0
                  /\ sends[tokenResults[u].fcmToken] = "fulfilled"
        /\ (\E k \in SendKeys : sends[k] = "rejected") =>
              \A u \in Users : ~WriteStarted(u)
        /\ Responded /\ res.status \in {400, 404} =>
              \A u \in Users : ~WriteStarted(u)

\* a mention whose push was fulfilled has its record write in flight
C31_Witness ==
    /\ pc = "recording"
    /\ req.endpoint = "mention"
    /\ req.recipientId \in Users
    /\ saves[req.recipientId] = "pending"
    /\ sends[tokenResults[req.recipientId].fcmToken] = "fulfilled"

\* ------------------------------------------------------------------ C32

\* a message request answered with a success body
MessageAnswered == Responded /\ req.endpoint = "message" /\ res.status = 200

\* C32 as stated: mutedCount is the number of members other than the sender
\* who muted the conversation, so saved = mutedCount + the number of non-muted
\* recipients.
C32_Original ==
    MessageAnswered /\ res.mutedCount # -1 =>
        /\ res.mutedCount = Cardinality(Muted \cap Recipients)
        /\ res.saved = res.mutedCount + Cardinality(Recipients \ Muted)

\* C32 amended: mutedCount is the length of the conversation's muted list, the
\* sender and non-members included, so saved <= mutedCount + the number of
\* non-muted recipients, with equality exactly when every muted user is a
\* member other than the sender; the all-muted response carries that length
\* under the key muted and has no mutedCount.
C32_MutedListLength ==
    MessageAnswered =>
        /\ res.mutedCount # -1 =>
              /\ res.mutedCount = Cardinality(Muted)
              /\ res.saved <= res.mutedCount + Cardinality(Recipients \ Muted)
              /\ (res.saved = res.mutedCount + Cardinality(Recipients \ Muted))
                    <=> Muted \subseteq Recipients
        /\ res.muted # -1 =>
              /\ res.muted = Cardinality(Muted)
              /\ res.mutedCount = -1
              /\ Recipients \subseteq Muted

\* the sender muted the conversation and one recipient did: mutedCount is 2
C32_Witness ==
    /\ MessageAnswered
    /\ res.mutedCount = 2
    /\ req.actorId \in Muted
    /\ Cardinality(Muted \cap Recipients) = 1
    /\ Cardinality(Recipients) = 2

\* ------------------------------------------------------------------ C33

\* C33: a message response that reports a dispatch has
\* 0 <= sent <= total <= saved, and saved is the number of members other than
\* the sender.
C33_CountOrder ==
    Dispatched /\ req.endpoint = "message" =>
        /\ 0 <= res.sent
        /\ res.sent <= res.total
        /\ res.total <= res.saved
        /\ res.saved = Cardinality(Recipients)

\* a dispatch where the three counts differ: the one send was rejected and one
\* of the two recipients was left out of the push batch
C33_Witness ==
    /\ Dispatched
    /\ req.endpoint = "message"
    /\ res.sent < res.total
    /\ res.total < res.saved

\* ------------------------------------------------------------------ C34

\* the push alerts the current request handed to FCM
ThisRequestAlerts == { m \in BagToSet(fcm) : m.reqNo = reqNo }

\* C34 as stated: the record a request persists carries the same type
\* discriminator, title and body as the push alert the same request sent.
C34_Original ==
    \A n \in ThisRequestRecords : \A m \in ThisRequestAlerts :
        /\ n.type = m.type
        /\ n.title = m.title
        /\ n.body = m.body

\* ------------------------------------------------------------------ C35

\* a /send is being answered 400: the address is missing or malformed
IssueInvalid == otpRes.op = "send" /\ otpRes.status = 400

\* C35: a /send answered 429 or 400 leaves the code store as it found it (the
\* entry, if any, keeps its code, expiresAt and attempts) and hands no mail to
\* the mailer.
C35_RejectedIssueFrame ==
    IssueRejected \/ IssueInvalid =>
        /\ otpStore[Email].present = otpRes.pre.present
        /\ otpStore[Email].otp = otpRes.pre.otp
        /\ otpStore[Email].expiresAt = otpRes.pre.expiresAt
        /\ otpStore[Email].attempts = otpRes.pre.attempts
        /\ otpMail = NoMail
        /\ BagCardinality(otpPending) = otpRes.inFlight

\* a /send answered 429 found an entry with two failed attempts and left it so
C35_Witness ==
    /\ IssueRejected
    /\ otpRes.pre.attempts = 2
    /\ otpStore[Email].attempts = 2
    /\ otpStore[Email].otp = otpRes.pre.otp

\* ------------------------------------------------------------------ C36

\* milliseconds until 60 s have elapsed since e was created
UntilMinuteOld(e) == e.createdAt + 60 * 1000 - now

\* C36: the retryAfter of a rate-limited /send is a whole number of seconds
\* between 1 and 60, the least one that covers the time left until the entry
\* it found is 60 s old.
C36_RetryAfterCeil ==
    IssueRejected =>
        /\ otpRes.retryAfter \in 1..60
        /\ otpRes.retryAfter * 1000 >= UntilMinuteOld(otpRes.pre)
        /\ (otpRes.retryAfter - 1) * 1000 < UntilMinuteOld(otpRes.pre)

\* 1 ms after the entry was created 59.999 s are left and retryAfter is 60
C36_Witness ==
    /\ IssueRejected
    /\ UntilMinuteOld(otpRes.pre) = 60 * 1000 - 1
    /\ otpRes.retryAfter = 60

\* ------------------------------------------------------------------ C38

\* the current notification request lacks a field its handler requires
MissingField ==
    \/ /\ req.endpoint = "message"
       /\ Falsy(req.chatId) \/ Falsy(req.actorId)
    \/ /\ req.endpoint = "new-post"
       /\ Falsy(req.refId) \/ Falsy(req.actorId)
    \/ /\ req.endpoint \in SingleEndpoints
       /\ \/ Falsy(req.recipientId)
          \/ req.endpoint # "send-notification" /\ Falsy(req.actorId)
          \/ /\ req.endpoint \in { "send-notification", "post-comment",
                                   "post-reaction", "post-share", "comment-reply",
                                   "comment-like", "group-invite" }
             /\ Falsy(req.refId)

\* an OTP request is being answered 400 by its handler's validation (the 400
\* answers of a verify that passed validation carry an error code)
OtpInvalid == otpRes.status = 400 /\ otpRes.code = NULL

\* C38: a request with a required field missing is answered 400 before any
\* external call: no directory lookup, push send or record write is made for
\* it, and an OTP request answered 400 by the validation leaves the code store
\* as it was and hands no mail to the mailer.
C38_ValidationFirst ==
    /\ MissingField =>
          /\ Responded
          /\ res.status = 400
          /\ NoExternalCall
          /\ chatData = NoChat
          /\ OtpIdle
    /\ OtpInvalid =>
          /\ Falsy(otpRes.email) \/ otpRes.otp = << >> \/ otpRes.email = BadEmail
          /\ otpStore[Email] = otpRes.pre
          /\ otpMail = NoMail
          /\ BagCardinality(otpPending) = otpRes.inFlight
          /\ pc = "idle"

\* a verify without a code is answered 400 while the address has an entry
\* with a failed attempt, and the entry is as before
C38_Witness ==
    /\ OtpInvalid
    /\ otpRes.op = "verify"
    /\ otpRes.email = Email
    /\ otpStore[Email].present
    /\ otpStore[Email].attempts = 1

\* ------------------------------------------------------------------ C37

\* a notification request has been received and not answered yet
InFlight == pc \notin {"idle", "responded"}

\* C37: when every awaited call settles, every request is answered exactly
\* once. A notification request in flight is eventually answered, it has no
\* response before and a response with a status after, and the response once
\* given does not change; an OTP request waiting for the mailer is eventually
\* answered 200 or 500, an accepted request adds exactly one waiting request
\* and gives no response yet, a mail response ends exactly one waiting
\* request, and every response of a synchronous path leaves none behind.
C37_OneResponse ==
    /\ InFlight ~> Responded
    /\ [](Responded => res.status # 0)
    /\ [](InFlight \/ pc = "idle" => res = NoRes)
    /\ [][res # NoRes => res' = res]_vars
    /\ ~MailerIdle ~> MailAnswered
    /\ [](~(otpMail # NoMail /\ otpRes # NoOtpRes))
    /\ [][/\ otpMail = NoMail /\ otpMail' # NoMail =>
                /\ BagCardinality(otpPending') = BagCardinality(otpPending) + 1
                /\ otpRes' = NoOtpRes
          /\ otpRes = NoOtpRes /\ otpRes' # NoOtpRes =>
                BagCardinality(otpPending') =
                    BagCardinality(otpPending)
                      - (IF otpRes'.op \in {"send", "resend"}
                            /\ otpRes'.status \in {200, 500} THEN 1 ELSE 0)
          /\ otpMail' = NoMail /\ otpRes' = otpRes =>
                BagCardinality(otpPending') = BagCardinality(otpPending)]_vars

\* a message request answered 500 after one of its lookups was rejected while
\* another was still in flight
C37_Witness ==
    /\ Responded
    /\ req.endpoint = "message"
    /\ res.status = 500
    /\ \E u \in Users : tokenResults[u].st = "error"
    /\ \E u \in Users : tokenResults[u].st = "pending"

====
